---- MODULE Spec2Model ----
(***************************************************************************)
(* Model of ocrmypdf/_concurrent.py: exec_progress_pool (the dispatcher),  *)
(* log_listener (the log aggregator thread), process_init / thread_init    *)
(* (the worker initializers) and the workers of the multiprocessing pool   *)
(* the dispatcher creates.  One behaviour is one call of                   *)
(* exec_progress_pool; the dispatcher, the listener thread and every       *)
(* worker take interleaved steps.                                          *)
(***************************************************************************)
EXTENDS Integers, Sequences, FiniteSets, TLC

\* ---- bounds of the model ------------------------------------------------
MaxWorkers == 2     \* max_workers is drawn from 0..MaxWorkers
MaxTasks == 2       \* len(task_arguments) is drawn from 0..MaxTasks
MaxRecords == 2     \* log records the tasks of one call emit at most
MaxSignals == 1     \* signals delivered to the workers of one call at most

\* ---- values ---------------------------------------------------------------
Unset == "<unset>"                    \* PYTEST_CURRENT_TEST not in os.environ
EnvValues == {Unset, "", "test_x"}
Sentinel == [kind |-> "None"]         \* the None put on log_queue

VARIABLES
    use_threads,     \* argument use_threads
    max_workers,     \* argument max_workers
    tqdm_valid,      \* whether tqdm(**tqdm_kwargs) accepts tqdm_kwargs
    ntasks,          \* len(task_arguments); the arguments are 1..ntasks
    has_finished_cb, \* whether task_finished was supplied
    pytest_env,      \* os.environ's PYTEST_CURRENT_TEST
    pc,              \* position of the dispatcher (the calling thread)
    exc,             \* exception in flight in / raised by the dispatcher
    listener,        \* log_listener thread: "unstarted", "running", "stopped"
    log_queue,       \* log_queue: sequence of records and sentinels
    sink,            \* records handled by logging (logger.handle)
    stderr_diag,     \* records whose handling printed "Logging problem"
    pool_state,      \* pool._state: "none", "RUN", "CLOSE", "TERMINATE"
    workers,         \* the pool's workers: worker id -> record
    taskq,           \* task arguments submitted and not yet taken by a worker
    results,         \* results completed and not yet pulled by the dispatcher
    started,         \* history: task arguments a worker began to execute
    completed,       \* history: results in completion order
    delivered,       \* history: results pulled by results.next(), in order
    emitted,         \* history: records put on log_queue by workers
    progress,        \* history: progress actions (callback / pbar.update)
    sentinels,       \* history: number of sentinels put on log_queue
    interrupted,     \* history: a KeyboardInterrupt reached the dispatcher
    callbacks,       \* history: calls of task_finished(result, pbar)
    updates,         \* history: calls of pbar.update()
    before_sentinel, \* history: records put on log_queue before the sentinel
    signalled        \* history: signals delivered to workers

vars == <<use_threads, max_workers, tqdm_valid, ntasks, has_finished_cb,
          pytest_env, pc, exc, listener, log_queue, sink, stderr_diag,
          pool_state, workers, taskq, results, started, completed, delivered,
          emitted, progress, sentinels, interrupted, callbacks, updates,
          before_sentinel, signalled>>

inputs == <<use_threads, max_workers, tqdm_valid, ntasks, has_finished_cb,
            pytest_env>>
dispatcherVars == <<pc, exc>>
progressVars == <<progress, callbacks, updates>>
sentinelVars == <<sentinels, before_sentinel>>
taskHist == <<started, completed, delivered, emitted, progressVars>>

\* ---- helpers ------------------------------------------------------------
\* os.environ.get("PYTEST_CURRENT_TEST", "")
EnvGet(e) == IF e = Unset THEN "" ELSE e

\* the task arguments of the call, in submission order
TaskArguments == [i \in 1..ntasks |-> i]

WorkerIds == DOMAIN workers

\* pool.join() returns when every worker has been joined
AllWorkersGone == \A w \in WorkerIds : workers[w].st \in {"exited", "killed"}

\* ---- Init: the state when exec_progress_pool is entered -------------------
Init ==
    /\ use_threads \in BOOLEAN
    /\ max_workers \in 0..MaxWorkers
    /\ tqdm_valid \in BOOLEAN
    /\ ntasks \in 0..MaxTasks
    /\ has_finished_cb \in BOOLEAN
    /\ pytest_env \in EnvValues
    /\ pc = "start"
    /\ exc = "none"
    /\ listener = "unstarted"
    /\ log_queue = <<>>
    /\ sink = {}
    /\ stderr_diag = {}
    /\ pool_state = "none"
    /\ workers = <<>>
    /\ taskq = <<>>
    /\ results = <<>>
    /\ started = {}
    /\ completed = <<>>
    /\ delivered = <<>>
    /\ emitted = {}
    /\ progress = 0
    /\ sentinels = 0
    /\ interrupted = FALSE
    /\ callbacks = 0
    /\ updates = 0
    /\ before_sentinel = {}
    /\ signalled = {}

\* ---- the log aggregator: log_listener -------------------------------------
\* mutant of ListenerStep: no except clause, a record whose handling raises
\* ends the thread
ListenerStep_NoCatch ==
    /\ listener = "running"
    /\ log_queue # <<>>
    /\ LET record == Head(log_queue) IN
        /\ log_queue' = Tail(log_queue)
        /\ IF record = Sentinel
             THEN listener' = "stopped" /\ sink' = sink
             ELSE IF record.bad
                    THEN listener' = "stopped" /\ sink' = sink
                    ELSE listener' = listener /\ sink' = sink \cup {record}
    /\ UNCHANGED <<inputs, signalled, interrupted, dispatcherVars,
                   stderr_diag, pool_state, workers, taskq, results,
                   taskHist, sentinelVars>>

\* mutant of ListenerStep: the sentinel is noted but the loop is not left,
\* the thread goes on reading
ListenerStep_ReadsOn ==
    /\ listener \in {"running", "stopped"}
    /\ log_queue # <<>>
    /\ LET record == Head(log_queue) IN
        /\ log_queue' = Tail(log_queue)
        /\ IF record = Sentinel
             THEN listener' = "stopped" /\ UNCHANGED <<sink, stderr_diag>>
             ELSE /\ listener' = listener
                  /\ IF record.bad
                       THEN stderr_diag' = stderr_diag \cup {record}
                            /\ sink' = sink
                       ELSE sink' = sink \cup {record}
                            /\ stderr_diag' = stderr_diag
    /\ UNCHANGED <<inputs, signalled, interrupted, dispatcherVars, pool_state,
                   workers, taskq, results, taskHist, sentinelVars>>

\* mutant of ListenerStep: the except clause prints the diagnostic and
\* leaves the loop
ListenerStep_BreakOnError ==
    /\ listener = "running"
    /\ log_queue # <<>>
    /\ LET record == Head(log_queue) IN
        /\ log_queue' = Tail(log_queue)
        /\ IF record = Sentinel
             THEN listener' = "stopped" /\ UNCHANGED <<sink, stderr_diag>>
             ELSE IF record.bad
                    THEN /\ stderr_diag' = stderr_diag \cup {record}
                         /\ sink' = sink
                         /\ listener' = "stopped"
                    ELSE /\ sink' = sink \cup {record}
                         /\ stderr_diag' = stderr_diag
                         /\ listener' = listener
    /\ UNCHANGED <<inputs, signalled, interrupted, dispatcherVars, pool_state,
                   workers, taskq, results, taskHist, sentinelVars>>

\* One iteration of the while loop: q.get(), then break on None, else
\* logger.handle(record); an exception in the iteration prints the
\* diagnostic and the loop continues.
ListenerStep ==
    /\ listener = "running"
    /\ log_queue # <<>>
    /\ LET record == Head(log_queue) IN
        /\ log_queue' = Tail(log_queue)
        /\ IF record = Sentinel
             THEN listener' = "stopped" /\ UNCHANGED <<sink, stderr_diag>>
             ELSE /\ listener' = listener
                  /\ IF record.bad
                       THEN stderr_diag' = stderr_diag \cup {record}
                            /\ sink' = sink
                       ELSE sink' = sink \cup {record}
                            /\ stderr_diag' = stderr_diag
    /\ UNCHANGED <<inputs, signalled, interrupted, dispatcherVars,
                   pool_state, workers, taskq, results, taskHist,
                   sentinelVars>>

\* ---- the dispatcher: exec_progress_pool -----------------------------------
\* listener = threading.Thread(target=log_listener, ...); listener.start()
StartListener ==
    /\ pc = "start"
    /\ listener' = "running"
    /\ pc' = "tqdm"
    /\ UNCHANGED <<inputs, signalled, interrupted, exc, log_queue, sink,
                   stderr_diag, pool_state, workers, taskq, results,
                   taskHist, sentinelVars>>

\* with tqdm(**tqdm_kwargs) as pbar: tqdm raises on keyword arguments it
\* does not know, and the exception leaves the call
EnterTqdm ==
    /\ pc = "tqdm"
    /\ IF tqdm_valid
         THEN pc' = "mkpool" /\ exc' = exc
         ELSE pc' = "raised" /\ exc' = "TqdmKeyError"
    /\ UNCHANGED <<inputs, signalled, interrupted, listener, log_queue, sink,
                   stderr_diag, pool_state, workers, taskq, results,
                   taskHist, sentinelVars>>

\* mutant of process_init: the SIGBUS handler is not installed
process_init_NoSigbusHandler(wk) ==
    [wk EXCEPT !.sigint = "SIG_IGN", !.root_handler = "QueueHandler",
               !.inits = @ + 1, !.user_inits = @ + 1, !.st = "idle"]

\* mutant of process_init: SIGINT keeps its default disposition
process_init_NoSigIgn(wk) ==
    [wk EXCEPT !.sigbus = "process_sigbus", !.root_handler = "QueueHandler",
               !.inits = @ + 1, !.user_inits = @ + 1, !.st = "idle"]

\* process_init(q, user_init, loglevel): SIGINT ignored, SIGBUS handled by
\* process_sigbus, the root logger's only handler is a QueueHandler on q,
\* then user_init()
process_init(wk) ==
    [wk EXCEPT !.sigint = "SIG_IGN", !.sigbus = "process_sigbus",
               !.root_handler = "QueueHandler", !.inits = @ + 1,
               !.user_inits = @ + 1, !.st = "idle"]

\* thread_init(_queue, user_init, _loglevel): SIGBUS blocked for the thread,
\* logging left as it is, then user_init()
thread_init(wk) ==
    [wk EXCEPT !.sigbus = "blocked", !.inits = @ + 1,
               !.user_inits = @ + 1, !.st = "idle"]

\* initializer = thread_init if use_threads else process_init
initializer(wk) == IF use_threads THEN thread_init(wk) ELSE process_init(wk)

\* a worker as pool_class(...) creates it, before its initializer ran
NewWorker ==
    [st |-> "created", task |-> 0, inits |-> 0, user_inits |-> 0,
     ran |-> FALSE, sigint |-> "default", sigbus |-> "default",
     root_handler |-> "inherited"]

\* pool = pool_class(processes=max_workers, initializer=..., initargs=...):
\* Pool raises ValueError when processes < 1; the call is inside the with
\* block and outside the try
CreatePool ==
    /\ pc = "mkpool"
    /\ IF max_workers >= 1
         THEN /\ workers' = [w \in 1..max_workers |-> NewWorker]
              /\ pool_state' = "RUN"
              /\ pc' = "imap"
              /\ exc' = exc
         ELSE /\ pc' = "raised"
              /\ exc' = "ValueError"
              /\ UNCHANGED <<workers, pool_state>>
    /\ UNCHANGED <<inputs, signalled, interrupted, listener, log_queue, sink,
                   stderr_diag, taskq, results, taskHist, sentinelVars>>

\* results = pool.imap_unordered(task, task_arguments)
ImapUnordered ==
    /\ pc = "imap"
    /\ taskq' = TaskArguments
    /\ pc' = "pull"
    /\ UNCHANGED <<inputs, signalled, interrupted, exc, listener, log_queue,
                   sink, stderr_diag, pool_state, workers, results, taskHist,
                   sentinelVars>>

\* mutant of NextReady: imap instead of imap_unordered, the results come
\* in the order of task_arguments
NextReady_Ordered(rs, nd) ==
    IF \E i \in 1..Len(rs) : rs[i].task = nd + 1
      THEN CHOOSE i \in 1..Len(rs) : rs[i].task = nd + 1
      ELSE 0

\* imap_unordered: the result results.next() hands out among the completed
\* results rs when nd were handed out before: the one completed first,
\* whatever its position in task_arguments; 0 when next() has to wait
NextReady(rs, nd) == IF rs # <<>> THEN 1 ELSE 0

\* mutant of Exhausted: the iteration stops as soon as nothing is ready
Exhausted_NothingReady == results = <<>>

\* results.next() raises StopIteration: every submitted task's result has
\* been handed out
Exhausted == Len(delivered) = ntasks

RemoveAt(seq, i) == SubSeq(seq, 1, i - 1) \o SubSeq(seq, i + 1, Len(seq))

\* result = results.next(): raises the task's exception if the task raised,
\* and StopIteration (except StopIteration: break, then the finally block)
\* once every result has been pulled; blocks while no result is ready
ResultsNext ==
    /\ pc = "pull"
    /\ IF Exhausted
         THEN /\ pc' = "finally"
              /\ UNCHANGED <<exc, results, delivered>>
         ELSE LET i == NextReady(results, Len(delivered)) IN
              /\ i > 0
              /\ results' = RemoveAt(results, i)
              /\ delivered' = Append(delivered, results[i])
              /\ IF results[i].ok
                   THEN pc' = "progress" /\ exc' = exc
                   ELSE pc' = "except_Exception" /\ exc' = results[i].err
    /\ UNCHANGED <<inputs, signalled, interrupted, listener, log_queue, sink,
                   stderr_diag, pool_state, workers, taskq, started,
                   completed, emitted, progressVars, sentinelVars>>

\* mutant of ProgressStep: pbar.update() is called whether or not
\* task_finished was supplied
ProgressStep_AlwaysUpdates ==
    /\ pc = "progress"
    /\ callbacks' = IF has_finished_cb THEN callbacks + 1 ELSE callbacks
    /\ updates' = updates + 1
    /\ \E raises \in BOOLEAN :
         IF raises
           THEN /\ pc' = "except_Exception"
                /\ exc' = IF has_finished_cb THEN "CallbackError"
                                             ELSE "ProgressError"
                /\ progress' = progress
           ELSE /\ pc' = "pull"
                /\ exc' = exc
                /\ progress' = progress + 1
    /\ UNCHANGED <<inputs, signalled, interrupted, listener, log_queue, sink,
                   stderr_diag, pool_state, workers, taskq, results, started,
                   completed, delivered, emitted, sentinelVars>>

\* if task_finished: task_finished(result, pbar) else: pbar.update()
\* either may raise; the exception is caught by except Exception
ProgressStep ==
    /\ pc = "progress"
    /\ IF has_finished_cb
         THEN callbacks' = callbacks + 1 /\ updates' = updates
         ELSE updates' = updates + 1 /\ callbacks' = callbacks
    /\ \E raises \in BOOLEAN :
         IF raises
           THEN /\ pc' = "except_Exception"
                /\ exc' = IF has_finished_cb THEN "CallbackError"
                                             ELSE "ProgressError"
                /\ progress' = progress
           ELSE /\ pc' = "pull"
                /\ exc' = exc
                /\ progress' = progress + 1
    /\ UNCHANGED <<inputs, signalled, interrupted, listener, log_queue, sink,
                   stderr_diag, pool_state, workers, taskq, results, started,
                   completed, delivered, emitted, sentinelVars>>

\* KeyboardInterrupt raised in the calling thread inside the try block
Interrupt ==
    /\ pc \in {"imap", "pull", "progress"}
    /\ pc' = "except_KeyboardInterrupt"
    /\ exc' = "KeyboardInterrupt"
    /\ interrupted' = TRUE
    /\ UNCHANGED <<inputs, signalled, listener, log_queue, sink, stderr_diag,
                   pool_state, workers, taskq, results, taskHist,
                   sentinelVars>>

\* pool.terminate(): no task is handed out any more; worker processes are
\* killed (Process.terminate) and joined; worker threads cannot be killed:
\* they finish the task they run and then exit
terminate(ws) ==
    IF use_threads THEN ws
    ELSE [w \in DOMAIN ws |-> [ws[w] EXCEPT !.st = "killed"]]

\* mutant of ExceptKeyboardInterrupt: the handler re-raises without
\* pool.terminate()
ExceptKeyboardInterrupt_NoTerminate ==
    /\ pc = "except_KeyboardInterrupt"
    /\ pc' = "finally"
    /\ UNCHANGED <<inputs, signalled, interrupted, exc, listener, log_queue,
                   sink, stderr_diag, pool_state, workers, taskq, results,
                   taskHist, sentinelVars>>

\* mutant of ExceptKeyboardInterrupt: the handler puts the sentinel itself
\* before it re-raises
ExceptKeyboardInterrupt_PutsSentinel ==
    /\ pc = "except_KeyboardInterrupt"
    /\ pool_state' = "TERMINATE"
    /\ taskq' = <<>>
    /\ workers' = terminate(workers)
    /\ log_queue' = Append(log_queue, Sentinel)
    /\ sentinels' = sentinels + 1
    /\ before_sentinel' = IF sentinels = 0 THEN emitted ELSE before_sentinel
    /\ pc' = "finally"
    /\ UNCHANGED <<inputs, signalled, interrupted, exc, listener, sink,
                   stderr_diag, results, taskHist>>

\* except KeyboardInterrupt: pool.terminate(); raise
ExceptKeyboardInterrupt ==
    /\ pc = "except_KeyboardInterrupt"
    /\ pool_state' = "TERMINATE"
    /\ taskq' = <<>>
    /\ workers' = terminate(workers)
    /\ pc' = "finally"
    /\ UNCHANGED <<inputs, signalled, interrupted, exc, listener, log_queue,
                   sink, stderr_diag, results, taskHist, sentinelVars>>

\* mutant of ExitImmediately: "PYTEST_CURRENT_TEST" not in os.environ
ExitImmediately_KeyAbsent == pytest_env = Unset

\* not os.environ.get("PYTEST_CURRENT_TEST", "")
ExitImmediately == EnvGet(pytest_env) = ""

\* mutant of ExceptException: the failure is dropped and the loop goes on
ExceptException_Continues ==
    /\ pc = "except_Exception"
    /\ pc' = "pull"
    /\ exc' = "none"
    /\ UNCHANGED <<inputs, signalled, interrupted, listener, log_queue, sink,
                   stderr_diag, pool_state, workers, taskq, results,
                   taskHist, sentinelVars>>

\* except Exception: if not os.environ.get(...): pool.terminate(); raise
ExceptException ==
    /\ pc = "except_Exception"
    /\ IF ExitImmediately
         THEN /\ pool_state' = "TERMINATE"
              /\ taskq' = <<>>
              /\ workers' = terminate(workers)
         ELSE UNCHANGED <<pool_state, taskq, workers>>
    /\ pc' = "finally"
    /\ UNCHANGED <<inputs, signalled, interrupted, exc, listener, log_queue,
                   sink, stderr_diag, results, taskHist, sentinelVars>>

\* mutant of FinallyPutSentinel: the finally block puts nothing on log_queue
FinallyPutSentinel_NoPut ==
    /\ pc = "finally"
    /\ pc' = "close"
    /\ UNCHANGED <<inputs, signalled, interrupted, exc, listener, log_queue,
                   sink, stderr_diag, pool_state, workers, taskq, results,
                   taskHist, sentinelVars>>

\* finally: log_queue.put_nowait(None)
FinallyPutSentinel ==
    /\ pc = "finally"
    /\ log_queue' = Append(log_queue, Sentinel)
    /\ sentinels' = sentinels + 1
    /\ before_sentinel' = IF sentinels = 0 THEN emitted ELSE before_sentinel
    /\ pc' = "close"
    /\ UNCHANGED <<inputs, signalled, interrupted, exc, listener, sink,
                   stderr_diag, pool_state, workers, taskq, results,
                   taskHist>>

\* pool.close(): RUN becomes CLOSE, a terminated pool stays terminated
PoolClose ==
    /\ pc = "close"
    /\ pool_state' = IF pool_state = "RUN" THEN "CLOSE" ELSE pool_state
    /\ pc' = "join"
    /\ UNCHANGED <<inputs, signalled, interrupted, exc, listener, log_queue,
                   sink, stderr_diag, workers, taskq, results, taskHist,
                   sentinelVars>>

\* mutant of PoolJoin: control leaves without waiting for the workers
PoolJoin_NoWait ==
    /\ pc = "join"
    /\ pc' = IF exc = "none" THEN "listener_join" ELSE "raised"
    /\ UNCHANGED <<inputs, signalled, interrupted, exc, listener, log_queue,
                   sink, stderr_diag, pool_state, workers, taskq, results,
                   taskHist, sentinelVars>>

\* pool.join(), the end of the finally block and of the with block: an
\* exception in flight leaves the call here, skipping listener.join()
PoolJoin ==
    /\ pc = "join"
    /\ AllWorkersGone
    /\ pc' = IF exc = "none" THEN "listener_join" ELSE "raised"
    /\ UNCHANGED <<inputs, signalled, interrupted, exc, listener, log_queue,
                   sink, stderr_diag, pool_state, workers, taskq, results,
                   taskHist, sentinelVars>>

\* listener.join()
ListenerJoin ==
    /\ pc = "listener_join"
    /\ listener = "stopped"
    /\ pc' = "returned"
    /\ UNCHANGED <<inputs, signalled, interrupted, exc, listener, log_queue,
                   sink, stderr_diag, pool_state, workers, taskq, results,
                   taskHist, sentinelVars>>

\* ---- the workers of the pool ----------------------------------------------
\* The workers of a pool are interchangeable: of the workers that are in
\* the same state, the step is taken by the lowest-numbered one.
First(w) == \A v \in WorkerIds : v < w => workers[v] # workers[w]

\* the worker runs initializer(*initargs) before it enters its task loop
WorkerInit(w) ==
    /\ workers[w].st = "created"
    /\ First(w)
    /\ workers' = [workers EXCEPT ![w] = initializer(@)]
    /\ UNCHANGED <<inputs, signalled, interrupted, dispatcherVars, listener,
                   log_queue, sink, stderr_diag, pool_state, taskq, results,
                   taskHist, sentinelVars>>

\* mutant of CanTake: the task loop is entered without waiting for the
\* initializer
CanTake_Uninitialised(wk) == wk.st \in {"created", "idle"}

\* what a worker needs to take a task: it is in its task loop
CanTake(wk) == wk.st = "idle"

\* an idle worker takes the next submitted task argument
WorkerTake(w) ==
    /\ CanTake(workers[w])
    /\ First(w)
    /\ pool_state \in {"RUN", "CLOSE"}
    /\ taskq # <<>>
    /\ workers' = [workers EXCEPT ![w].st = "busy", ![w].task = Head(taskq),
                                  ![w].ran = TRUE]
    /\ taskq' = Tail(taskq)
    /\ started' = started \cup {Head(taskq)}
    /\ UNCHANGED <<inputs, signalled, interrupted, dispatcherVars, listener,
                   log_queue, sink, stderr_diag, pool_state, results,
                   completed, delivered, emitted, progressVars,
                   sentinelVars>>

\* the task logs a record: the QueueHandler process_init installed puts it
\* on log_queue.  (thread_init leaves logging alone: what a thread worker
\* logs never reaches log_queue.)  A record is identified by its number in
\* the order of the puts; bad: handling it raises in the listener.
WorkerLog(w) ==
    /\ workers[w].st = "busy"
    /\ workers[w].root_handler = "QueueHandler"
    /\ Cardinality(emitted) < MaxRecords
    /\ \E bad \in BOOLEAN :
         LET record == [kind |-> "LogRecord", seq |-> Cardinality(emitted) + 1,
                        bad |-> bad]
         IN /\ log_queue' = Append(log_queue, record)
            /\ emitted' = emitted \cup {record}
    /\ UNCHANGED <<inputs, signalled, interrupted, dispatcherVars, listener,
                   sink, stderr_diag, pool_state, workers, taskq, results,
                   started, completed, delivered, progressVars,
                   sentinelVars>>

\* the task returns or raises: its result joins the completed results
WorkerFinish(w) ==
    /\ workers[w].st = "busy"
    /\ \E ok \in BOOLEAN :
         LET result == [task |-> workers[w].task, ok |-> ok,
                        err |-> IF ok THEN "none" ELSE "TaskError"] IN
         /\ results' = Append(results, result)
         /\ completed' = Append(completed, result)
    /\ workers' = [workers EXCEPT ![w].st = "idle", ![w].task = 0]
    /\ UNCHANGED <<inputs, signalled, interrupted, dispatcherVars, listener,
                   log_queue, sink, stderr_diag, pool_state, taskq, started,
                   delivered, emitted, progressVars, sentinelVars>>

\* a worker leaves its task loop: after terminate(), or after close() once
\* no submitted task is outstanding
WorkerExit(w) ==
    /\ workers[w].st = "idle"
    /\ First(w)
    /\ \/ pool_state = "TERMINATE"
       \/ /\ pool_state = "CLOSE"
          /\ taskq = <<>>
          /\ \A v \in WorkerIds : workers[v].st # "busy"
    /\ workers' = [workers EXCEPT ![w].st = "exited"]
    /\ UNCHANGED <<inputs, signalled, interrupted, dispatcherVars, listener,
                   log_queue, sink, stderr_diag, pool_state, taskq, results,
                   taskHist, sentinelVars>>

\* ---- signals delivered to worker processes --------------------------------
\* process_sigbus(*args): raise InputFileError(...)
process_sigbus == "InputFileError"

\* SIGBUS reaches a worker process while it runs a task: with the handler
\* process_init installed, process_sigbus raises inside the task, which ends
\* as a failed result carrying that exception; with the default disposition
\* the process dies and its task is lost
WorkerSigbus(w) ==
    /\ ~use_threads
    /\ workers[w].st = "busy"
    /\ Cardinality(signalled) < MaxSignals
    /\ signalled' = signalled \cup
         {[sig |-> "SIGBUS", task |-> workers[w].task,
           n |-> Cardinality(signalled) + 1]}
    /\ IF workers[w].sigbus = "process_sigbus"
         THEN LET result == [task |-> workers[w].task, ok |-> FALSE,
                             err |-> process_sigbus] IN
              /\ results' = Append(results, result)
              /\ completed' = Append(completed, result)
              /\ workers' = [workers EXCEPT ![w].st = "idle", ![w].task = 0]
         ELSE /\ workers' = [workers EXCEPT ![w].st = "crashed"]
              /\ UNCHANGED <<results, completed>>
    /\ UNCHANGED <<inputs, interrupted, dispatcherVars, listener, log_queue,
                   sink, stderr_diag, pool_state, taskq, started, delivered,
                   emitted, progressVars, sentinelVars>>

\* SIGINT reaches a worker process (the terminal sends it to the whole
\* process group): ignored once process_init has run; with the default
\* disposition KeyboardInterrupt ends the process: a worker that has not
\* run a task yet is replaced by the pool, a running task is lost
WorkerSigint(w) ==
    /\ ~use_threads
    /\ workers[w].st \in {"created", "idle", "busy"}
    /\ Cardinality(signalled) < MaxSignals
    /\ signalled' = signalled \cup
         {[sig |-> "SIGINT", task |-> workers[w].task,
           n |-> Cardinality(signalled) + 1]}
    /\ workers' = IF workers[w].sigint = "SIG_IGN" THEN workers
                  ELSE IF workers[w].st = "created"
                         THEN [workers EXCEPT ![w] = NewWorker]
                         ELSE [workers EXCEPT ![w].st = "crashed"]
    /\ UNCHANGED <<inputs, interrupted, dispatcherVars, listener, log_queue,
                   sink, stderr_diag, pool_state, taskq, results, taskHist,
                   sentinelVars>>

Next ==
    \/ ListenerStep
    \/ StartListener
    \/ EnterTqdm
    \/ CreatePool
    \/ ImapUnordered
    \/ ResultsNext
    \/ ProgressStep
    \/ Interrupt
    \/ ExceptKeyboardInterrupt
    \/ ExceptException
    \/ FinallyPutSentinel
    \/ PoolClose
    \/ PoolJoin
    \/ ListenerJoin
    \/ \E w \in WorkerIds : WorkerInit(w)
    \/ \E w \in WorkerIds : WorkerTake(w)
    \/ \E w \in WorkerIds : WorkerLog(w)
    \/ \E w \in WorkerIds : WorkerFinish(w)
    \/ \E w \in WorkerIds : WorkerExit(w)

Spec == Init /\ [][Next]_vars

\* the call in process mode with signals delivered to its workers, for
\* tasks that log nothing
InitSig == Init /\ ~use_threads /\ tqdm_valid /\ max_workers >= 1

NextSig ==
    \/ ListenerStep
    \/ StartListener
    \/ EnterTqdm
    \/ CreatePool
    \/ ImapUnordered
    \/ ResultsNext
    \/ ProgressStep
    \/ Interrupt
    \/ ExceptKeyboardInterrupt
    \/ ExceptException
    \/ FinallyPutSentinel
    \/ PoolClose
    \/ PoolJoin
    \/ ListenerJoin
    \/ \E w \in WorkerIds : WorkerInit(w)
    \/ \E w \in WorkerIds : WorkerTake(w)
    \/ \E w \in WorkerIds : WorkerFinish(w)
    \/ \E w \in WorkerIds : WorkerExit(w)
    \/ \E w \in WorkerIds : WorkerSigbus(w)
    \/ \E w \in WorkerIds : WorkerSigint(w)

SpecSig == InitSig /\ [][NextSig]_vars

\* ---- fair scheduling --------------------------------------------------------
\* the steps of the calling thread inside exec_progress_pool; the interrupt
\* is the user's step, not the thread's
Dispatcher ==
    \/ StartListener
    \/ EnterTqdm
    \/ CreatePool
    \/ ImapUnordered
    \/ ResultsNext
    \/ ProgressStep
    \/ ExceptKeyboardInterrupt
    \/ ExceptException
    \/ FinallyPutSentinel
    \/ PoolClose
    \/ PoolJoin
    \/ ListenerJoin

\* the steps of one worker that the pool and a task that terminates make it
\* take; whether the task logs is up to the task
WorkerRun(w) ==
    /\ w \in WorkerIds
    /\ \/ WorkerInit(w)
       \/ WorkerTake(w)
       \/ WorkerFinish(w)
       \/ WorkerExit(w)

\* every thread and process that can take a step eventually takes one
Fairness ==
    /\ WF_vars(Dispatcher)
    /\ WF_vars(ListenerStep)
    /\ \A w \in 1..MaxWorkers : WF_vars(WorkerRun(w))

\* a call whose tasks emit at most one log record between them
WorkerLogOnce(w) == emitted = {} /\ WorkerLog(w)

\* the call when no interrupt arrives
NextLive ==
    \/ ListenerStep
    \/ StartListener
    \/ EnterTqdm
    \/ CreatePool
    \/ ImapUnordered
    \/ ResultsNext
    \/ ProgressStep
    \/ ExceptException
    \/ FinallyPutSentinel
    \/ PoolClose
    \/ PoolJoin
    \/ ListenerJoin
    \/ \E w \in WorkerIds : WorkerInit(w)
    \/ \E w \in WorkerIds : WorkerTake(w)
    \/ \E w \in WorkerIds : WorkerLogOnce(w)
    \/ \E w \in WorkerIds : WorkerFinish(w)
    \/ \E w \in WorkerIds : WorkerExit(w)

FairSpec == Init /\ [][NextLive]_vars /\ Fairness

\* ---- properties -----------------------------------------------------------
\* control has left exec_progress_pool
Exited == pc \in {"returned", "raised"}

\* the dispatcher is past its except clauses: in the finally block or out
PastHandlers == pc \in {"finally", "close", "join", "listener_join",
                        "returned", "raised"}

IsPrefix(a, b) == Len(a) <= Len(b) /\ a = SubSeq(b, 1, Len(a))

\* the last result pulled was a task's exception
TaskFailureObserved ==
    delivered # <<>> /\ ~delivered[Len(delivered)].ok

\* the records the listener has taken off log_queue
Dequeued == {r \in emitted : \A i \in 1..Len(log_queue) : log_queue[i] # r}

\* C1: when the pool was built, no task raised, the completion callback and
\* the progress bar did not raise and no interrupt occurred, the call ends
\* by returning, every task argument's result was pulled exactly once and
\* each got its progress action.
C1_AllResultsObserved ==
    ( /\ Exited
      /\ tqdm_valid /\ max_workers >= 1
      /\ \A i \in 1..Len(completed) : completed[i].ok
      /\ ~interrupted
      /\ exc \notin {"CallbackError", "ProgressError"} )
    => /\ pc = "returned"
       /\ exc = "none"
       /\ Len(delivered) = ntasks
       /\ {delivered[i].task : i \in 1..Len(delivered)} = 1..ntasks
       /\ progress = ntasks

C1_Witness ==
    /\ pc = "returned"
    /\ ntasks >= 2
    /\ Len(delivered) = ntasks
    /\ \A i \in 1..Len(completed) : completed[i].ok

\* C2: once the listener has stopped, every well-formed record a worker put
\* on log_queue has been handled by logging (no record is lost).
C2_NoRecordLost ==
    listener = "stopped" => \A r \in emitted : ~r.bad => r \in sink

\* C3: whenever control has left the call after the listener thread was
\* started, the sentinel has been put on log_queue.
C3_SentinelOnEveryExit ==
    (Exited /\ listener # "unstarted") => sentinels >= 1

\* C4: whenever control has left the call with the pool built (return,
\* interrupt, task failure), the listener thread has terminated.
C4_ListenerJoinedOnEveryExit ==
    (Exited /\ pool_state # "none") => listener = "stopped"

C7_TaskFailurePolicy ==
    TaskFailureObserved
    => /\ exc = delivered[Len(delivered)].err
       /\ exc \in {"TaskError", "InputFileError"}
       /\ pc \in {"except_Exception", "finally", "close", "join", "raised"}
       /\ PastHandlers
          => (pool_state = "TERMINATE" <=> pytest_env \in {Unset, ""})
       /\ pc = "raised"
          => /\ sentinels = 1
             /\ \A w \in WorkerIds : workers[w].st \in {"exited", "killed"}

C7_Witness ==
    /\ pc = "raised"
    /\ TaskFailureObserved
    /\ pytest_env = ""
    /\ pool_state = "TERMINATE"

\* C8: the results are pulled in the order the tasks completed: the pulled
\* results are a prefix of the completion sequence, and while a completed
\* result is waiting the dispatcher's pull is enabled, whatever task is
\* still running.
C8_CompletionOrder ==
    /\ IsPrefix(delivered, completed)
    /\ (pc = "pull" /\ results # <<>>) => ENABLED ResultsNext

C8_Witness ==
    /\ Len(delivered) = 1
    /\ delivered[1].task = 2
    /\ 1 \in started
    /\ \A i \in 1..Len(completed) : completed[i].task # 1

\* C9 (as claimed): no worker runs its initializer twice, a worker that ran
\* a task ran the initializer before, and when control has left the call
\* every worker of the pool has run its initializer exactly once.
C9_InitExactlyOnce ==
    /\ \A w \in WorkerIds :
         /\ workers[w].inits <= 1
         /\ workers[w].ran => workers[w].inits = 1
    /\ Exited => \A w \in WorkerIds : workers[w].inits = 1

\* C9 (amended): in both modes no worker runs its initializer (and with it
\* the caller's setup callback) twice; a worker that has entered its task
\* loop or run a task has run it exactly once, before; when control has
\* left the call the only workers that never ran it are worker processes
\* pool.terminate() killed before they ran any task.
C9_InitOnceBeforeTasks ==
    /\ \A w \in WorkerIds :
         /\ workers[w].inits <= 1
         /\ workers[w].user_inits = workers[w].inits
         /\ (workers[w].ran \/ workers[w].st \in {"idle", "busy", "exited"})
            => workers[w].inits = 1
         /\ workers[w].inits = 0
            => workers[w].st \in {"created", "killed"}
    /\ Exited
       => \A w \in WorkerIds :
            \/ workers[w].inits = 1
            \/ /\ ~use_threads
               /\ pool_state = "TERMINATE"
               /\ workers[w].st = "killed"
               /\ ~workers[w].ran

C9_Witness ==
    /\ Exited
    /\ \E w \in WorkerIds : workers[w].inits = 1 /\ workers[w].ran
    /\ \E w \in WorkerIds : workers[w].inits = 1 /\ ~workers[w].ran

\* C10 (as claimed): the call raises nothing but the interrupt and a task's
\* failure.
C10_OnlyInterruptAndTaskErrors ==
    pc = "raised"
    => exc \in {"KeyboardInterrupt", "TaskError", "InputFileError"}

\* C10 (amended): what the call raises is the interrupt, a task's failure,
\* a failure of the completion callback or of the progress bar's update, or
\* the failure to build the progress bar or the pool, each only when that
\* event happened; a record whose handling fails in the listener is
\* reported on stderr, never raised, and does not stop the listener.
C10_PropagationPolicy ==
    /\ pc = "raised"
       => \/ exc = "KeyboardInterrupt" /\ interrupted
          \/ TaskFailureObserved /\ exc = delivered[Len(delivered)].err
          \/ /\ exc = (IF has_finished_cb THEN "CallbackError"
                                          ELSE "ProgressError")
             /\ delivered # <<>>
             /\ delivered[Len(delivered)].ok
             /\ progress = Len(delivered) - 1
          \/ exc = "ValueError" /\ max_workers < 1 /\ pool_state = "none"
          \/ exc = "TqdmKeyError" /\ ~tqdm_valid /\ pool_state = "none"
    /\ \A r \in Dequeued : r.bad => r \in stderr_diag
    /\ (listener = "stopped") => sentinels >= 1
    /\ ( /\ Exited
         /\ tqdm_valid /\ max_workers >= 1
         /\ ~interrupted
         /\ \A i \in 1..Len(delivered) : delivered[i].ok
         /\ progress = Len(delivered) )
       => pc = "returned"

C10_Witness ==
    /\ pc = "returned"
    /\ stderr_diag # {}
    /\ \E r \in stderr_diag : r.bad

\* the SIGBUS signals delivered so far
Sigbus == {s \in signalled : s.sig = "SIGBUS"}

\* C11: in process mode every SIGBUS delivered to a worker that runs a task
\* ends that task as a failed result carrying InputFileError, no worker
\* process has died of it, and when the dispatcher pulls that result the
\* exception in flight is InputFileError.
C11_SigbusBecomesInputFileError ==
    /\ \A s \in Sigbus :
         \E i \in 1..Len(completed) :
           completed[i] = [task |-> s.task, ok |-> FALSE,
                           err |-> "InputFileError"]
    /\ \A w \in WorkerIds : workers[w].st # "crashed"
    /\ (TaskFailureObserved
        /\ \E s \in Sigbus : s.task = delivered[Len(delivered)].task)
       => exc = "InputFileError"

C11_Witness ==
    /\ pc = "raised"
    /\ exc = "InputFileError"
    /\ Sigbus # {}
    /\ \A w \in WorkerIds : workers[w].st \in {"exited", "killed"}

\* C12: in process mode no SIGINT delivered to an initialized worker changes
\* the worker: no worker dies of it, and a task that was started is
\* completed, still running on its worker, or was ended by the
\* dispatcher's pool.terminate(); a task that was running when SIGINT came
\* is never lost.
C12_WorkersIgnoreSigint ==
    /\ \A w \in WorkerIds : workers[w].st # "crashed"
    /\ \A t \in started :
         \/ \E i \in 1..Len(completed) : completed[i].task = t
         \/ \E w \in WorkerIds : workers[w].st = "busy" /\ workers[w].task = t
         \/ pool_state = "TERMINATE"
    /\ \A w \in WorkerIds :
         workers[w].inits = 1 => workers[w].sigint = "SIG_IGN"

C12_Witness ==
    /\ pc = "returned"
    /\ \E s \in signalled :
         /\ s.sig = "SIGINT"
         /\ s.task # 0
         /\ \E i \in 1..Len(completed) :
              completed[i].task = s.task /\ completed[i].ok

\* the listener has taken the sentinel off log_queue
SentinelDequeued ==
    sentinels >= 1 /\ \A i \in 1..Len(log_queue) : log_queue[i] # Sentinel

\* C13: at most one sentinel has been put on log_queue, in every state of
\* the call, whatever the exit path.
C13_AtMostOneSentinel == sentinels <= 1

C13_Witness ==
    /\ pc = "raised"
    /\ interrupted
    /\ sentinels = 1

\* C14: the listener has stopped only if it has taken the sentinel off
\* log_queue, whatever records, malformed ones included, it met before.
C14_StopsOnlyOnSentinel == listener = "stopped" => SentinelDequeued

C14_Witness ==
    /\ listener = "stopped"
    /\ \E r \in stderr_diag : r.bad
    /\ sink # {}

\* C15: once the listener has stopped it reads log_queue no more (the
\* queue only grows, nothing more is handled), and every record it ever
\* handled was put on log_queue before the sentinel.
C15_NoReadAfterSentinel ==
    /\ [](sentinels >= 1 => (sink \cup stderr_diag) \subseteq before_sentinel)
    /\ [][listener = "stopped"
          => /\ listener' = "stopped"
             /\ sink' = sink
             /\ stderr_diag' = stderr_diag
             /\ IsPrefix(log_queue, log_queue')]_vars

C15_Witness ==
    /\ listener = "stopped"
    /\ pc = "raised"
    /\ \E i \in 1..Len(log_queue) :
         log_queue[i] \in emitted \ before_sentinel

\* C16: a record whose handling fails is reported on stderr and not
\* forwarded, the listener stays in its loop (it stops only on the
\* sentinel), every other record it took off log_queue is forwarded, and
\* when it has stopped every record put before the sentinel was handled.
C16_RecordErrorContained ==
    /\ \A r \in Dequeued :
         IF r.bad THEN r \in stderr_diag /\ r \notin sink
                  ELSE r \in sink /\ r \notin stderr_diag
    /\ listener = "stopped"
       => /\ SentinelDequeued
          /\ before_sentinel \subseteq Dequeued

C16_Witness ==
    /\ listener = "stopped"
    /\ \E b \in stderr_diag : \E g \in sink : b.bad /\ ~g.bad /\ g.seq > b.seq

\* the results pulled that were values, not exceptions
OkPulled == Cardinality({i \in 1..Len(delivered) : delivered[i].ok})

\* never both kinds of progress action in one call
OneKindOfProgress ==
    IF has_finished_cb THEN updates = 0 ELSE callbacks = 0

\* C17 (as claimed): the progress actions are callback calls if a callback
\* was supplied and pbar.update() calls otherwise, never both, and outside
\* the moment between results.next() and the progress action their number
\* equals the number of results pulled.
C17_OneProgressPerResult ==
    /\ OneKindOfProgress
    /\ pc # "progress" => callbacks + updates = OkPulled

\* C17 (amended): never both kinds; every result pulled gets at most one
\* progress action, and exactly one unless a KeyboardInterrupt reaches the
\* dispatcher between results.next() and the progress action: the number
\* of progress actions is the number of results pulled, or one less while
\* the last result waits for its action or after it was interrupted there.
C17_OneProgressUnlessInterrupted ==
    /\ OneKindOfProgress
    /\ callbacks + updates \in {OkPulled, OkPulled - 1}
    /\ callbacks + updates = OkPulled - 1 => (pc = "progress" \/ interrupted)
    /\ (pc = "progress" /\ ~interrupted) => callbacks + updates = OkPulled - 1
    /\ progress <= callbacks + updates

C17_Witness ==
    /\ pc = "returned"
    /\ has_finished_cb
    /\ callbacks = 2
    /\ Len(delivered) = 2

\* the dispatcher has observed a failure: a task's exception was pulled, a
\* progress action raised, or the interrupt arrived
FailureObserved ==
    \/ interrupted
    \/ \E i \in 1..Len(delivered) : ~delivered[i].ok
    \/ callbacks + updates > progress

\* the call failed: a failure was observed in the loop, or the progress bar
\* or the pool could not be constructed
FailureOrCtorError ==
    FailureObserved \/ exc \in {"TqdmKeyError", "ValueError"}

\* C19: once the dispatcher has observed a failure it pulls no further
\* result and performs no further progress action, whatever completes
\* during teardown.
C19_NothingPulledAfterFailure ==
    [][FailureObserved
       => /\ delivered' = delivered
          /\ callbacks' = callbacks
          /\ updates' = updates
          /\ progress' = progress]_vars

C19_Witness ==
    /\ pc = "raised"
    /\ FailureObserved
    /\ Len(completed) > Len(delivered)
    /\ results # <<>>

\* the graceful-drain policy is requested
Drain == pytest_env \notin {Unset, ""}

\* C20: after a task failure under the drain policy the call raises only
\* when every submitted task has finished and every worker was joined;
\* without the drain policy pool.join() has no running task to wait for.
C20_DrainWaitsElseNot ==
    /\ (pc = "raised" /\ TaskFailureObserved /\ Drain)
       => /\ Len(completed) = ntasks
          /\ pool_state = "CLOSE"
          /\ \A w \in WorkerIds : workers[w].st = "exited"
    /\ (pc = "join" /\ TaskFailureObserved /\ ~Drain)
       => \A w \in WorkerIds : workers[w].st # "busy"

\* the call has returned normally after a complete teardown
CleanReturn ==
    /\ pc = "returned"
    /\ exc = "none"
    /\ Len(delivered) = ntasks
    /\ sentinels = 1
    /\ pool_state = "CLOSE"
    /\ \A w \in WorkerIds : workers[w].st = "exited"
    /\ listener = "stopped"
    /\ SentinelDequeued

\* C18: under fair scheduling of dispatcher, workers and aggregator, with
\* tasks that finish, the call eventually ends; unless a failure or the
\* interrupt was observed it ends by returning with every result pulled,
\* the sentinel sent, the pool joined, the aggregator stopped after it
\* dequeued the sentinel, and the aggregator joined.
C18_CallEnds ==
    <>((pc = "raised" /\ FailureOrCtorError) \/ CleanReturn)

C18_Witness ==
    /\ CleanReturn
    /\ ntasks = 2
    /\ Cardinality(WorkerIds) = 2
    /\ emitted # {}
    /\ stderr_diag # {}
====
